---- MODULE Spec2Model ----
(***************************************************************************)
(* Dithering Studio (Photoshop UXP plugin): the preview pipeline of        *)
(* App.tsx (capture -> levels -> Floyd-Steinberg -> publish), its single   *)
(* slot raw-image cache and its two debounce timers, together with the     *)
(* pixel functions the pipeline calls.                                     *)
(*                                                                         *)
(* An ImageData is a record [width, height, data]; data is the byte array  *)
(* as a sequence, so the code's data[i] is data[i + 1] here.               *)
(* A palette colour '#RRGGBB' is the sequence of its seven characters.     *)
(* LevelsSettings.midPoint is kept in tenths (10 stands for gamma 1.0).    *)
(* A pending timeout may expire at any later step, except that a timeout   *)
(* armed after another one, with a longer delay, expires after it.         *)
(***************************************************************************)
EXTENDS Integers, Sequences, FiniteSets, TLC

(***************************************************************************)
(* Bounds of the model.                                                    *)
(***************************************************************************)
\* runs that may await their capture at the same time
MaxInFlight == 2
\* entries of a palette handed to findClosestColor on its own
MaxPaletteLen == 2
\* width and height of an image handed to the pixel functions on their own
MaxWidth == 2
MaxHeight == 2

(***************************************************************************)
(* imageDataHelper.ts                                                      *)
(***************************************************************************)
\* new Uint8ClampedArray(width * height * 4): all bytes zero
createImageData(width, height) ==
  [width |-> width, height |-> height,
   data |-> [i \in 1..(width * height * 4) |-> 0]]

(***************************************************************************)
(* floydSteinberg.ts                                                       *)
(***************************************************************************)
HexDigits ==
  <<"0", "1", "2", "3", "4", "5", "6", "7", "8", "9",
    "A", "B", "C", "D", "E", "F">>

\* value of one hexadecimal digit character
HexDigit(c) == (CHOOSE i \in 1..16 : HexDigits[i] = c) - 1

\* parseInt(color.slice(from, from + 2), 16); from is the 0-based offset
parseHex(color, from) == 16 * HexDigit(color[from + 1]) + HexDigit(color[from + 2])

\* [pr, pg, pb] of a palette entry
paletteRGB(color) == <<parseHex(color, 1), parseHex(color, 3), parseHex(color, 5)>>

\* Math.pow(r-pr,2) + Math.pow(g-pg,2) + Math.pow(b-pb,2); Math.sqrt is
\* strictly increasing on these integers, so distances compare as squares
distance2(r, g, b, rgb) ==
  (r - rgb[1]) * (r - rgb[1]) + (g - rgb[2]) * (g - rgb[2]) + (b - rgb[3]) * (b - rgb[3])

\* the scan of findClosestColor from palette entry k on; minDistance < 0
\* stands for Infinity
RECURSIVE closestFrom(_, _, _, _, _, _, _)
closestFrom(r, g, b, palette, k, minDistance, closest) ==
  IF k > Len(palette) THEN closest
  ELSE LET rgb == paletteRGB(palette[k])
           d   == distance2(r, g, b, rgb)
       IN IF minDistance < 0 \/ d < minDistance
            THEN closestFrom(r, g, b, palette, k + 1, d, rgb)
            ELSE closestFrom(r, g, b, palette, k + 1, minDistance, closest)

\* the first entry, whatever its distance
findClosestColor_firstEntry(r, g, b, palette) ==
  IF palette = <<>> THEN <<0, 0, 0>> ELSE paletteRGB(palette[1])

\* the scan run from the last entry to the first
findClosestColor_lastWins(r, g, b, palette) ==
  closestFrom(r, g, b,
              [k \in 1..Len(palette) |-> palette[Len(palette) + 1 - k]],
              1, -1, <<0, 0, 0>>)

findClosestColor(r, g, b, palette) ==
  closestFrom(r, g, b, palette, 1, -1, <<0, 0, 0>>)

\* store of Math.max(0, Math.min(255, n16 / 16)) into a Uint8ClampedArray:
\* the clamped value is rounded to the nearest integer, ties to even
clampStore16(n16) ==
  IF n16 <= 0 THEN 0
  ELSE IF n16 >= 255 * 16 THEN 255
  ELSE LET f == n16 \div 16
           m == n16 % 16
       IN IF m < 8 THEN f
          ELSE IF m > 8 THEN f + 1
          ELSE IF f % 2 = 0 THEN f ELSE f + 1

\* the same writes, made to the pixel before the one at byte offset nIdx
diffuse_intoPrevious(out, nIdx, err, weight) ==
  [i \in DOMAIN out |->
     IF i \in (nIdx - 3)..(nIdx - 1)
       THEN clampStore16(16 * out[i] + err[i - nIdx + 4] * weight)
       ELSE out[i]]

\* outputData[nIdx + c] = clamp(outputData[nIdx + c] + err[c] * weight / 16)
\* for the three colour channels of the pixel at byte offset nIdx
diffuse(out, nIdx, err, weight) ==
  [i \in DOMAIN out |->
     IF i \in (nIdx + 1)..(nIdx + 3)
       THEN clampStore16(16 * out[i] + err[i - nIdx] * weight)
       ELSE out[i]]

\* the body of the x/y loops for pixel number p = y * width + x
ditherPixel(out, width, height, p, palette) ==
  LET x    == p % width
      y    == p \div width
      idx  == p * 4
      old  == <<out[idx + 1], out[idx + 2], out[idx + 3]>>
      new  == findClosestColor(old[1], old[2], old[3], palette)
      err  == <<old[1] - new[1], old[2] - new[2], old[3] - new[3]>>
      o0   == [i \in DOMAIN out |->
                 IF i \in (idx + 1)..(idx + 3) THEN new[i - idx] ELSE out[i]]
      o1   == IF x + 1 < width
                THEN diffuse(o0, (y * width + (x + 1)) * 4, err, 7) ELSE o0
      o2   == IF x > 0 /\ y + 1 < height
                THEN diffuse(o1, ((y + 1) * width + (x - 1)) * 4, err, 3) ELSE o1
      o3   == IF y + 1 < height
                THEN diffuse(o2, ((y + 1) * width + x) * 4, err, 5) ELSE o2
      o4   == IF x + 1 < width /\ y + 1 < height
                THEN diffuse(o3, ((y + 1) * width + (x + 1)) * 4, err, 1) ELSE o3
  IN o4

\* for (y...) for (x...): pixels p, p+1, ... in raster order; a buffer of
\* no bytes has no pixels
RECURSIVE ditherFrom(_, _, _, _, _)
ditherFrom(out, width, height, p, palette) ==
  IF Len(out) = 0 \/ p >= width * height THEN out
  ELSE ditherFrom(ditherPixel(out, width, height, p, palette),
                  width, height, p + 1, palette)

\* the pixels taken as one row of width * height pixels
floydSteinberg_oneRow(imageData, palette) ==
  LET output == createImageData(imageData.width, imageData.height)
      copied == [i \in DOMAIN output.data |->
                   IF i <= Len(imageData.data) THEN imageData.data[i] ELSE 0]
  IN [output EXCEPT !.data =
        ditherFrom(copied, imageData.width * imageData.height, 1, 0, palette)]

\* a new ImageData: the input copied, then dithered in place
floydSteinberg(imageData, palette) ==
  LET output == createImageData(imageData.width, imageData.height)
      copied == [i \in DOMAIN output.data |->
                   IF i <= Len(imageData.data) THEN imageData.data[i] ELSE 0]
  IN [output EXCEPT !.data =
        ditherFrom(copied, imageData.width, imageData.height, 0, palette)]

\* the input dithered in place
floydSteinbergInput_dithered(imageData, palette) == floydSteinberg(imageData, palette)

\* the input of floydSteinberg as the call leaves it: data is only read
\* (the copy loop), every write goes to outputData
floydSteinbergInput(imageData, palette) == imageData

(***************************************************************************)
(* levels.ts                                                               *)
(***************************************************************************)
\* Math.round(q) for q = num / den >= 0, den > 0: floor(q + 0.5)
roundDiv(num, den) == (2 * num + den) \div (2 * den)

\* Math.round(255 * Math.sqrt(p / q)) for 0 < p < q
roundSqrt255(p, q) ==
  CHOOSE r \in 0..255 :
    /\ (r = 0 \/ (2 * r - 1) * (2 * r - 1) * q <= 4 * 255 * 255 * p)
    /\ (2 * r + 1) * (2 * r + 1) * q > 4 * 255 * 255 * p

\* the square of p / q whatever the gamma
gammaCurve_squares(p, q, midPoint) == roundDiv(255 * p * p, q * q)

\* Math.round(Math.pow(p / q, 1 / gamma) * 255), gamma = midPoint / 10
gammaCurve(p, q, midPoint) ==
  CASE midPoint = 10 -> roundDiv(255 * p, q)
    [] midPoint = 5  -> roundDiv(255 * p * p, q * q)
    [] midPoint = 20 -> roundSqrt255(p, q)

\* the white clip tested before the black clip
applyLevels_whiteFirst(value, blackPoint, midPoint, whitePoint) ==
  IF value >= whitePoint THEN 255
  ELSE IF value <= blackPoint THEN 0
  ELSE gammaCurve(value - blackPoint, whitePoint - blackPoint, midPoint)

\* no black clip where the white point is above the black point
applyLevels_noBlackClip(value, blackPoint, midPoint, whitePoint) ==
  IF value >= whitePoint THEN 255
  ELSE IF whitePoint <= blackPoint THEN 0
  ELSE gammaCurve(value - blackPoint, whitePoint - blackPoint, midPoint)

applyLevels(value, blackPoint, midPoint, whitePoint) ==
  IF value <= blackPoint THEN 0
  ELSE IF value >= whitePoint THEN 255
  ELSE gammaCurve(value - blackPoint, whitePoint - blackPoint, midPoint)

\* every byte adjusted, the alpha too
applyLevelsToImageData_everyByte(imageData, levels) ==
  [imageData EXCEPT !.data =
     [i \in DOMAIN imageData.data |->
        applyLevels(imageData.data[i], levels.blackPoint,
                    levels.midPoint, levels.whitePoint)]]

\* mutates imageData.data in place and returns the same object: the value
\* is the content of that one object after the call
applyLevelsToImageData(imageData, levels) ==
  [imageData EXCEPT !.data =
     [i \in DOMAIN imageData.data |->
        IF i % 4 = 0 THEN imageData.data[i]
        ELSE applyLevels(imageData.data[i], levels.blackPoint,
                         levels.midPoint, levels.whitePoint)]]

(***************************************************************************)
(* displayCalculator.ts. percent / 100 and its product with a dimension    *)
(* are IEEE 754 doubles (53 bits, round to nearest, ties to even).         *)
(***************************************************************************)
RECURSIVE pow2(_)
pow2(n) == IF n <= 0 THEN 1 ELSE 2 * pow2(n - 1)

\* floor(log2(num / den)) for num, den > 0: the binary exponent of num / den
exponent(num, den) ==
  CHOOSE e \in -8..20 :
    IF e >= 0 THEN pow2(e) * den <= num /\ num < pow2(e + 1) * den
    ELSE den <= num * pow2(-e) /\ num * pow2(-e) < 2 * den

\* 2^n modulo 100
RECURSIVE pow2mod100(_)
pow2mod100(n) == IF n <= 0 THEN 1 ELSE (2 * pow2mod100(n - 1)) % 100

\* the double percent / 100 minus the quotient percent / 100, in
\* hundredths of the last place of that double: the 53-bit significand is
\* percent * 2^(52 - e) / 100 rounded to the nearest integer
quotientError(percent) ==
  LET rest == (percent * pow2mod100(52 - exponent(percent, 100))) % 100
  IN IF rest < 50 THEN -rest ELSE 100 - rest

\* Math.round(dimension * (percent / 100)), for dimension >= 0, percent > 0.
\* Off a half the double product rounds as the exact one does. On a half,
\* q + 0.5, which is a double, the product of the doubles is q + 0.5 unless
\* percent / 100 was rounded down by more than half the gap between
\* q + 0.5 and the double below it
roundPercent(dimension, percent) ==
  LET q == (dimension * percent) \div 100
      f == (dimension * percent) % 100
  IN IF f < 50 THEN q
     ELSE IF f > 50 THEN q + 1
     ELSE LET d == quotientError(percent)
              gap == pow2(exponent(2 * q + 1, 2) - exponent(percent, 100))
          IN IF d < 0 /\ dimension * (-d) * (IF q = 0 THEN 4 ELSE 2) > 100 * gap
               THEN q
               ELSE q + 1

calculateProcessedSize(docSize, processingScale) ==
  [width |-> roundPercent(docSize.width, processingScale),
   height |-> roundPercent(docSize.height, processingScale)]

calculateCanvasSize(processedSize, displayZoom) ==
  [width |-> roundPercent(processedSize.width, displayZoom),
   height |-> roundPercent(processedSize.height, displayZoom)]

getBorderColor(displayZoom) ==
  IF displayZoom = 100 THEN "green"
  ELSE IF displayZoom < 100 THEN "red"
  ELSE "blue"

\* colorMap[borderColor]
colorMap(borderColor) ==
  CASE borderColor = "green" -> "#00ff00"
    [] borderColor = "red" -> "#ff0000"
    [] borderColor = "blue" -> "#0088ff"

getBorderStyle(borderColor) ==
  [border |-> <<"3px solid ", colorMap(borderColor)>>,
   boxShadow |-> <<"0 0 10px ", colorMap(borderColor)>>]

(***************************************************************************)
(* types.ts                                                                *)
(***************************************************************************)
DEFAULT_LEVELS == [blackPoint |-> 0, midPoint |-> 10, whitePoint |-> 255]

DEFAULT_PALETTE ==
  << <<"#", "0", "0", "0", "0", "0", "0">>,
     <<"#", "F", "F", "F", "F", "F", "F">> >>

(***************************************************************************)
(* Values of the model: a nullable value is the empty sequence (null) or   *)
(* a one-element sequence.                                                 *)
(***************************************************************************)
Null == <<>>
Some(v) == <<v>>

\* positions of the Processing Scale slider (min 5, max 50)
Scales == {5, 10}
\* positions of the three Levels sliders
BlackPoints == {0, 160}
MidPoints == {10}
WhitePoints == {255}

\* the documents the user may have open; all have the same size
Docs ==
  { [width |-> 20, height |-> 10, mode |-> "RGB", bitsPerChannel |-> 8],
    [width |-> 20, height |-> 10, mode |-> "CMYK", bitsPerChannel |-> 16] }
\* what app.activeDocument may be when a capture starts (the plugin runs
\* inside the host, so require('photoshop') succeeds)
ActiveDocuments == {Null} \cup {Some(doc) : doc \in Docs}
\* what executeAsModal settles with
Outcomes == {"rgba", "rgb", "wrongLength", "rejected"}

(***************************************************************************)
(* documentValidator.ts                                                    *)
(***************************************************************************)
validateDocument(doc) ==
  IF doc.mode # "RGB"
    THEN [isValid |-> FALSE,
          errorMessage |-> Some("Document must be in RGB mode. Please convert via Image > Mode > RGB Color")]
  ELSE IF doc.bitsPerChannel # 8
    THEN [isValid |-> FALSE,
          errorMessage |-> Some("Document must be 8-bit. Please convert via Image > Mode > 8 Bits/Channel")]
  ELSE [isValid |-> TRUE, errorMessage |-> Null]

\* Math.round(dimension * (scale / 100))
targetSize(dimension, scale) == roundPercent(dimension, scale)

\* the pixel the host hands back for (x, y) of the flattened, resized
\* duplicate (resampling is the host's): a fixed ramp, the same for every
\* document
hostPixel(x, y) == <<100 + 40 * x, 100 + 40 * y, 100, 255>>

\* getData() of getPixels: components bytes per pixel, row-major
hostPixels(width, height, components) ==
  [i \in 1..(width * height * components) |->
     LET p == (i - 1) \div components
         c == (i - 1) % components
     IN hostPixel(p % width, p \div width)[c + 1]]

\* what executeAsModal hands back for each way it can resolve
pixelDataOf(width, height, outcome) ==
  CASE outcome = "rgba" -> hostPixels(width, height, 4)
    [] outcome = "rgb" -> hostPixels(width, height, 3)
    [] outcome = "wrongLength" -> hostPixels(width, height, 1)

\* the RGB bytes stored one after the other, the rest filled with 255
toImageData_rgbAsItComes(pixelData, targetWidth, targetHeight) ==
  LET imageData == createImageData(targetWidth, targetHeight)
      expectedRGBA == targetWidth * targetHeight * 4
      expectedRGB == targetWidth * targetHeight * 3
  IN IF Len(pixelData) > 0 /\ Len(pixelData) = expectedRGBA
       THEN [ok |-> TRUE, error |-> <<>>,
             imageData |-> [imageData EXCEPT !.data = pixelData]]
     ELSE IF Len(pixelData) > 0 /\ Len(pixelData) = expectedRGB
       THEN [ok |-> TRUE, error |-> <<>>,
             imageData |-> [imageData EXCEPT !.data =
               [i \in 1..expectedRGBA |->
                  IF i <= Len(pixelData) THEN pixelData[i] ELSE 255]]]
     ELSE [ok |-> FALSE,
           error |-> <<"Invalid pixel data", ": expected RGBA or RGB bytes">>,
           imageData |-> imageData]

\* the tail of getCompositeImageData: pixelData into a new ImageData
toImageData(pixelData, targetWidth, targetHeight) ==
  LET imageData == createImageData(targetWidth, targetHeight)
      expectedRGBA == targetWidth * targetHeight * 4
      expectedRGB == targetWidth * targetHeight * 3
  IN IF Len(pixelData) > 0 /\ Len(pixelData) = expectedRGBA
       THEN [ok |-> TRUE, error |-> <<>>,
             imageData |-> [imageData EXCEPT !.data = pixelData]]
     ELSE IF Len(pixelData) > 0 /\ Len(pixelData) = expectedRGB
       THEN [ok |-> TRUE, error |-> <<>>,
             imageData |-> [imageData EXCEPT !.data =
               [i \in 1..expectedRGBA |->
                  IF i % 4 = 0 THEN 255
                  ELSE pixelData[((i - 1) \div 4) * 3 + ((i - 1) % 4) + 1]]]]
     ELSE [ok |-> FALSE,
           error |-> <<"Invalid pixel data", ": expected RGBA or RGB bytes">>,
           imageData |-> imageData]

\* getCompositeImageData(scale) up to 'await executeAsModal': the error it
\* throws, or the target size it goes on with
captureStart(activeDocument, scale) ==
  IF activeDocument = Null
    THEN [ok |-> FALSE, error |-> <<"No active document",
                      " - please open a document in Photoshop">>,
          targetWidth |-> 0, targetHeight |-> 0]
    ELSE [ok |-> TRUE, error |-> <<>>,
          targetWidth |-> targetSize(activeDocument[1].width, scale),
          targetHeight |-> targetSize(activeDocument[1].height, scale)]

\* getCompositeImageData from the point where executeAsModal settles:
\* the error it throws, or the ImageData it returns
captureEnd(targetWidth, targetHeight, outcome) ==
  IF outcome = "rejected"
    THEN [ok |-> FALSE, error |-> <<"executeAsModal error: ", "host error">>,
          imageData |-> createImageData(0, 0)]
    ELSE toImageData(pixelDataOf(targetWidth, targetHeight, outcome),
                     targetWidth, targetHeight)

(***************************************************************************)
(* App.tsx: state                                                          *)
(***************************************************************************)
VARIABLES
  previewState,       \* useState<Partial<PreviewState>>, without the
                      \* fields the pipeline does not read (displayZoom,
                      \* algorithm)
  error,              \* useState<string | null>: null or the message shown
  cachedRawImageRef,  \* useRef<ImageData | null>: .current
  levelsTimer,        \* pending timeout of the settings effect, or null
  scaleTimer,         \* pending timeout of the processingScale effect, or null
  inflight,           \* processImage calls awaiting getCompositeImageData,
                      \* oldest first
  overtaken,          \* history: how many of the oldest calls in flight
                      \* were made before a call that has since published
  last                \* history: how the latest processImage step ended:
                      \* "none", "started", "success" or "failure"

vars ==
  <<previewState, error, cachedRawImageRef, levelsTimer, scaleTimer,
    inflight, overtaken, last>>

\* one call of a function of the pipeline, taken on its own
VARIABLES
  args,               \* the arguments of the call: null while the App runs,
                      \* else a record; an argument the function writes to
                      \* holds what the function has left in it
  returned            \* null before the call, then what it returned
                      \* (for the display on its own: args is the part of
                      \* previewState the display reads, returned is what
                      \* the last render has put on the screen)

\* the variables of a call
callVars == <<args, returned>>

\* all variables
allVars == <<vars, callVars>>

\* what processImage reads of the previewState of the render that made it
closureOf(ps) ==
  [processingScale |-> ps.processingScale, levels |-> ps.levels,
   palette |-> ps.palette]

\* a processImage call awaiting its capture: the closure it runs with and
\* the target size its getCompositeImageData has computed
Call(closure, started) ==
  [closure |-> closure, targetWidth |-> started.targetWidth,
   targetHeight |-> started.targetHeight]

\* the App as constructed: the initial useState and useRef values
AppInit ==
  /\ previewState =
       [processingScale |-> 10,
        levels |-> DEFAULT_LEVELS, palette |-> DEFAULT_PALETTE,
        livePreview |-> TRUE, isProcessing |-> FALSE,
        processedImageData |-> Null, processedSize |-> Null]
  /\ error = Null
  /\ cachedRawImageRef = Null
  /\ levelsTimer = Null
  /\ scaleTimer = Null
  /\ inflight = <<>>
  /\ overtaken = 0
  /\ last = "none"

\* the App on its own: no function is called apart from it
Init ==
  /\ AppInit
  /\ args = Null
  /\ returned = Null

(***************************************************************************)
(* App.tsx: processImage                                                   *)
(***************************************************************************)
includes(errorMessage, text) ==
  \E i \in DOMAIN errorMessage : errorMessage[i] = text

\* reportedError without the stack trace: the message alone
reportedError_messageOnly(errorMessage) ==
  IF includes(errorMessage, "No active document") THEN Null
  ELSE IF includes(errorMessage, "Worker is not defined")
    THEN Some(<<"UXP does not support Web Workers. Using synchronous processing.">>)
  ELSE Some(errorMessage)

\* the catch block of processImage: what setError is given
reportedError(errorMessage) ==
  IF includes(errorMessage, "No active document") THEN Null
  ELSE IF includes(errorMessage, "Worker is not defined")
    THEN Some(<<"UXP does not support Web Workers. Using synchronous processing.">>)
  ELSE Some(errorMessage \o <<"\n\nStack: ", "stack">>)

\* published without processedSize: the size of the run before stays
published_keepsSize(ps, dithered) ==
  [ps EXCEPT !.processedImageData = Some(dithered),
             !.isProcessing = FALSE]

\* previewState after the 'Update state' setPreviewState
published(ps, dithered) ==
  [ps EXCEPT !.processedImageData = Some(dithered),
             !.processedSize =
                Some([width |-> dithered.width, height |-> dithered.height]),
             !.isProcessing = FALSE]

\* the catch block without its setPreviewState
failed_staysProcessing(ps) == ps

\* previewState after the setPreviewState of the catch block
failed(ps) == [ps EXCEPT !.isProcessing = FALSE]

\* the larger of two numbers
max(a, b) == IF a > b THEN a ELSE b

\* the sequence without its element at position n
removeAt(calls, n) ==
  [i \in 1..(Len(calls) - 1) |-> IF i < n THEN calls[i] ELSE calls[i + 1]]

\* processImage(useCache) of the render with the given closure, up to its
\* first suspension; cacheNow is cachedRawImageRef.current when it is called
processImage(useCache, closure, cacheNow, activeDocument) ==
  IF useCache /\ cacheNow # Null
  THEN
    \* rawImageData = cachedRawImageRef.current; levels in place; dither
    LET leveled == applyLevelsToImageData(cacheNow[1], closure.levels)
        dithered == floydSteinberg(leveled, closure.palette)
    IN /\ previewState' = published(previewState, dithered)
       /\ error' = Null
       /\ cachedRawImageRef' = Some(leveled)
       /\ inflight' = inflight
       /\ overtaken' = Len(inflight)
       /\ last' = "success"
  ELSE
    /\ Len(inflight) < MaxInFlight
    /\ IF ~captureStart(activeDocument, closure.processingScale).ok
       THEN
         \* thrown before the first await: the catch block runs at once
         /\ previewState' = failed(previewState)
         /\ error' = reportedError(
              captureStart(activeDocument, closure.processingScale).error)
         /\ cachedRawImageRef' = cacheNow
         /\ inflight' = inflight
         /\ overtaken' = overtaken
         /\ last' = "failure"
       ELSE
         \* await getCompositeImageData(previewState.processingScale)
         /\ previewState' = [previewState EXCEPT !.isProcessing = TRUE]
         /\ error' = Null
         /\ cachedRawImageRef' = cacheNow
         /\ inflight' = Append(inflight,
              Call(closure,
                   captureStart(activeDocument, closure.processingScale)))
         /\ overtaken' = overtaken
         /\ last' = "started"

\* getCompositeImageData settles for the n-th call in flight and that
\* processImage runs to its end
CaptureSettles(n, outcome) ==
  LET call == inflight[n]
      result == captureEnd(call.targetWidth, call.targetHeight, outcome)
  IN
  IF result.ok
  THEN
    LET leveled == applyLevelsToImageData(result.imageData,
                                          call.closure.levels)
        dithered == floydSteinberg(leveled, call.closure.palette)
    IN /\ previewState' = published(previewState, dithered)
       /\ error' = error
       /\ cachedRawImageRef' = Some(leveled)
       /\ inflight' = removeAt(inflight, n)
       /\ overtaken' = max(overtaken, n) - 1
       /\ last' = "success"
       /\ UNCHANGED <<levelsTimer, scaleTimer>>
  ELSE
    /\ previewState' = failed(previewState)
    /\ error' = reportedError(result.error)
    /\ inflight' = removeAt(inflight, n)
    /\ overtaken' = IF n <= overtaken THEN overtaken - 1 ELSE overtaken
    /\ last' = "failure"
    /\ UNCHANGED <<cachedRawImageRef, levelsTimer, scaleTimer>>

CaptureSettlesAny ==
  \E n \in DOMAIN inflight : \E outcome \in Outcomes :
    CaptureSettles(n, outcome)

(***************************************************************************)
(* App.tsx: the Process button                                             *)
(***************************************************************************)
\* onClick of the Process button
ProcessClickOn(activeDocument) ==
  /\ ~previewState.isProcessing
  /\ processImage(FALSE, closureOf(previewState), cachedRawImageRef, activeDocument)
  /\ UNCHANGED <<levelsTimer, scaleTimer>>

ProcessClick == \E doc \in ActiveDocuments : ProcessClickOn(doc)

(***************************************************************************)
(* App.tsx: the two effects and the handlers that trigger them             *)
(***************************************************************************)
\* useEffect on [algorithm, levels, palette], run for the render with ps:
\* the timeout it arms (its cleanup has cleared the one before)
settingsEffect(ps) ==
  IF ps.livePreview /\ cachedRawImageRef # Null
    THEN Some([delay |-> 300, closure |-> closureOf(ps), waitsFor |-> 0])
    ELSE Null

\* useEffect on [processingScale], run for the render with ps; waitsFor is
\* the delay of the timeout that is pending and expires before this one
scaleEffect(ps) ==
  IF ps.livePreview /\ cachedRawImageRef # Null
    THEN Some([delay |-> 500, closure |-> closureOf(ps),
               waitsFor |-> IF levelsTimer # Null THEN levelsTimer[1].delay
                            ELSE 0])
    ELSE Null

\* the scale timeout once the settings timeout it waited for is gone
released(timer) ==
  IF timer = Null THEN Null ELSE Some([timer[1] EXCEPT !.waitsFor = 0])

handleProcessingScaleChange(value) ==
  /\ value # previewState.processingScale
  /\ previewState' = [previewState EXCEPT !.processingScale = value]
  /\ scaleTimer' = scaleEffect(previewState')
  /\ UNCHANGED <<error, cachedRawImageRef, levelsTimer, inflight, overtaken,
                 last>>

\* the select fires onChange with an entry other than the current one, so
\* the settings effect runs again; previewState.algorithm is read by
\* nothing else (processImage always calls floydSteinberg) and is not kept
handleAlgorithmChange ==
  /\ levelsTimer' = settingsEffect(previewState)
  /\ scaleTimer' = released(scaleTimer)
  /\ UNCHANGED <<previewState, error, cachedRawImageRef, inflight, overtaken,
                 last>>

\* levels is a new object on every call, so the effect always runs again
handleLevelsChange(type, value) ==
  /\ previewState' = [previewState EXCEPT !.levels[type] = value]
  /\ levelsTimer' = settingsEffect(previewState')
  /\ scaleTimer' = released(scaleTimer)
  /\ UNCHANGED <<error, cachedRawImageRef, inflight, overtaken, last>>

LevelsChange ==
  \/ \E value \in BlackPoints : handleLevelsChange("blackPoint", value)
  \/ \E value \in MidPoints : handleLevelsChange("midPoint", value)
  \/ \E value \in WhitePoints : handleLevelsChange("whitePoint", value)

ScaleChange == \E value \in Scales : handleProcessingScaleChange(value)

\* setTimeout(() => processImage(true), 300) expires
LevelsTimerFiresOn(activeDocument) ==
  /\ levelsTimer # Null
  /\ levelsTimer' = Null
  /\ scaleTimer' = released(scaleTimer)
  /\ processImage(TRUE, levelsTimer[1].closure, cachedRawImageRef, activeDocument)

LevelsTimerFires == \E doc \in ActiveDocuments : LevelsTimerFiresOn(doc)

\* the scale timeout without 'cachedRawImageRef.current = null'
ScaleTimerFiresOn_keepsCache(activeDocument) ==
  /\ scaleTimer # Null
  /\ scaleTimer[1].waitsFor = 0
  /\ scaleTimer' = Null
  /\ processImage(FALSE, scaleTimer[1].closure, cachedRawImageRef,
                  activeDocument)
  /\ UNCHANGED levelsTimer

\* setTimeout(() => { cachedRawImageRef.current = null;
\*                    processImage(false) }, 500) expires
ScaleTimerFiresOn(activeDocument) ==
  /\ scaleTimer # Null
  /\ scaleTimer[1].waitsFor = 0
  /\ scaleTimer' = Null
  /\ processImage(FALSE, scaleTimer[1].closure, Null, activeDocument)
  /\ UNCHANGED levelsTimer

ScaleTimerFires == \E doc \in ActiveDocuments : ScaleTimerFiresOn(doc)

Next ==
  \/ ProcessClick /\ UNCHANGED callVars
  \/ CaptureSettlesAny /\ UNCHANGED callVars
  \/ LevelsChange /\ UNCHANGED callVars
  \/ ScaleChange /\ UNCHANGED callVars
  \/ handleAlgorithmChange /\ UNCHANGED callVars
  \/ LevelsTimerFires /\ UNCHANGED callVars
  \/ ScaleTimerFires /\ UNCHANGED callVars

Spec == Init /\ [][Next]_allVars

(***************************************************************************)
(* findClosestColor called on its own, on a colour and a palette.          *)
(***************************************************************************)
\* channel values of the colour looked up
Channels == {0, 1, 10, 127, 128, 250, 255}

\* palette entries; '#000000' and '#020000' are equally far from (1, g, b)
Colours ==
  { <<"#", "0", "0", "0", "0", "0", "0">>,
    <<"#", "F", "F", "F", "F", "F", "F">>,
    <<"#", "0", "2", "0", "0", "0", "0">>,
    <<"#", "F", "F", "0", "0", "0", "0">> }

\* the palettes of at most n entries, the empty one among them
PalettesUpTo(n) == UNION {[1..k -> Colours] : k \in 0..n}

ClosestInit ==
  /\ AppInit
  /\ args \in [r : Channels, g : Channels, b : Channels,
               palette : PalettesUpTo(MaxPaletteLen)]
  /\ returned = Null

findClosestColorCall ==
  /\ returned = Null
  /\ returned' = Some(findClosestColor(args.r, args.g, args.b, args.palette))
  /\ UNCHANGED <<vars, args>>

ClosestNext == findClosestColorCall

ClosestSpec == ClosestInit /\ [][ClosestNext]_allVars

(***************************************************************************)
(* applyLevels called on its own, on one channel value, and                *)
(* applyLevelsToImageData on an image of one pixel of that value.          *)
(***************************************************************************)
\* positions of the black point and of the white point, in either order
LevelPoints == {0, 1, 100, 128, 200, 254, 255}

\* gamma 0.5, 1.0 and 2.0
Gammas == {5, 10, 20}

\* the image of one opaque pixel whose three channels are value
pixelImage(value) ==
  [width |-> 1, height |-> 1, data |-> <<value, value, value, 255>>]

LevelsInit ==
  /\ AppInit
  /\ args \in [value : 0..255, blackPoint : LevelPoints, midPoint : Gammas,
               whitePoint : LevelPoints]
  /\ returned = Null

applyLevelsCall ==
  /\ returned = Null
  /\ returned' = Some([of |-> "applyLevels",
                       value |-> applyLevels(args.value, args.blackPoint,
                                             args.midPoint, args.whitePoint)])
  /\ UNCHANGED <<vars, args>>

applyLevelsToPixelCall ==
  /\ returned = Null
  /\ returned' = Some([of |-> "applyLevelsToImageData",
                       value |-> applyLevelsToImageData(
                                   pixelImage(args.value),
                                   [blackPoint |-> args.blackPoint,
                                    midPoint |-> args.midPoint,
                                    whitePoint |-> args.whitePoint])])
  /\ UNCHANGED <<vars, args>>

LevelsNext ==
  \/ applyLevelsCall
  \/ applyLevelsToPixelCall

LevelsSpec == LevelsInit /\ [][LevelsNext]_allVars

(***************************************************************************)
(* applyLevelsToImageData and floydSteinberg called on their own, in the   *)
(* order processImage calls them: floydSteinberg on an image as captured   *)
(* or on what applyLevelsToImageData has left in it.                       *)
(***************************************************************************)
\* pixels [r, g, b, a] of the images: 120 * 7 / 16 ends in .5, and
\* 230 + 120 * 7 / 16 exceeds 255
PixelValues == {<<120, 120, 120, 255>>, <<230, 20, 130, 128>>}

\* the images of width x height pixels
ImagesOf(width, height) ==
  { [width |-> width, height |-> height,
     data |-> [i \in 1..(width * height * 4) |->
                 pixels[((i - 1) \div 4) + 1][((i - 1) % 4) + 1]]] :
      pixels \in [1..(width * height) -> PixelValues] }

\* the 4x4 source whose every pixel is (128, 128, 128, 255)
Gray4x4 ==
  [width |-> 4, height |-> 4,
   data |-> [i \in 1..64 |-> IF i % 4 = 0 THEN 255 ELSE 128]]

Images ==
  UNION {ImagesOf(width, height) : width \in 1..MaxWidth, height \in 1..MaxHeight}
    \cup {Gray4x4}

\* the palettes handed to floydSteinberg
DitherPalettes ==
  { <<>>,
    DEFAULT_PALETTE,
    << <<"#", "F", "F", "F", "F", "F", "F">>,
       <<"#", "F", "F", "0", "0", "0", "0">>,
       <<"#", "0", "0", "0", "0", "0", "0">> >> }

\* the LevelsSettings handed to applyLevelsToImageData
LevelsChoices ==
  {DEFAULT_LEVELS, [blackPoint |-> 50, midPoint |-> 5, whitePoint |-> 220]}

DitherInit ==
  /\ AppInit
  /\ args \in [imageData : Images, levels : LevelsChoices, palette : DitherPalettes]
  /\ returned = Null

\* the call writes into its argument and returns that same object
applyLevelsToImageDataCall ==
  /\ returned = Null
  /\ LET adjusted == applyLevelsToImageData(args.imageData, args.levels)
     IN /\ args' = [args EXCEPT !.imageData = adjusted]
        /\ returned' = Some([of |-> "applyLevelsToImageData", value |-> adjusted])
  /\ UNCHANGED vars

floydSteinbergCall ==
  /\ IF returned = Null THEN TRUE ELSE returned[1].of = "applyLevelsToImageData"
  /\ returned' = Some([of |-> "floydSteinberg",
                       value |-> floydSteinberg(args.imageData, args.palette)])
  /\ args' = [args EXCEPT
                !.imageData = floydSteinbergInput(args.imageData, args.palette)]
  /\ UNCHANGED vars

DitherNext ==
  \/ applyLevelsToImageDataCall
  \/ floydSteinbergCall

DitherSpec == DitherInit /\ [][DitherNext]_allVars

(***************************************************************************)
(* calculateProcessedSize and calculateCanvasSize called on their own.     *)
(***************************************************************************)
\* widths and heights of a document or of a processed image
Dimensions == {1, 10, 25, 50, 90, 100, 500, 1000}

\* the Processing Scale slider (min 5, max 50)
ProcessingScales == 5..50

\* the Display Zoom slider (min 50, max 200)
DisplayZooms == 50..200

SizeInit ==
  /\ AppInit
  /\ args \in [size : [width : Dimensions, height : Dimensions],
               percent : ProcessingScales \cup DisplayZooms]
  /\ returned = Null

calculateProcessedSizeCall ==
  /\ returned = Null
  /\ args.percent \in ProcessingScales
  /\ returned' = Some([of |-> "calculateProcessedSize",
                       value |-> calculateProcessedSize(args.size, args.percent)])
  /\ UNCHANGED <<vars, args>>

calculateCanvasSizeCall ==
  /\ returned = Null
  /\ args.percent \in DisplayZooms
  /\ returned' = Some([of |-> "calculateCanvasSize",
                       value |-> calculateCanvasSize(args.size, args.percent)])
  /\ UNCHANGED <<vars, args>>

SizeNext ==
  \/ calculateProcessedSizeCall
  \/ calculateCanvasSizeCall

SizeSpec == SizeInit /\ [][SizeNext]_allVars

(***************************************************************************)
(* App.tsx: the display on its own: the Display Zoom slider, the effect    *)
(* that renders the canvas and the border of the preview container.        *)
(***************************************************************************)
\* sizes of the processedImageData a run publishes
ProcessedSizes ==
  {[width |-> 2, height |-> 1], [width |-> 10, height |-> 5],
   [width |-> 100, height |-> 50]}

\* the canvas after the render effect: null while there is no processed
\* image; else its size, every pixel (x, y) of the image being filled as
\* the square of side pixelSize at (x * pixelSize, y * pixelSize)
renderCanvas(ps) ==
  IF ps.processedImageData = Null THEN Null
  ELSE LET pixelSize == max(1, roundPercent(1, ps.displayZoom))
       IN Some([width |-> ps.processedImageData[1].width * pixelSize,
                height |-> ps.processedImageData[1].height * pixelSize,
                pixelSize |-> pixelSize])

\* getBorderStyle(previewState.borderColor || 'green')
borderStyle(ps) ==
  getBorderStyle(IF ps.borderColor = Null THEN "green" ELSE ps.borderColor[1])

\* what a render of the App shows
shown(ps) == [canvas |-> renderCanvas(ps), borderStyle |-> borderStyle(ps)]

\* the initial useState value has no borderColor and no processed image
DisplayInit ==
  /\ AppInit
  /\ args = [displayZoom |-> 100, borderColor |-> Null, processedImageData |-> Null]
  /\ returned = shown(args)

\* both the slider and the number field (which clamps to 50..200)
handleDisplayZoomChange(value) ==
  /\ args' = [args EXCEPT !.displayZoom = value]
  /\ returned' = shown(args')
  /\ UNCHANGED vars

DisplayZoomChange == \E value \in DisplayZooms : handleDisplayZoomChange(value)

\* a run publishes its processed image (setPreviewState of processImage)
ImagePublished ==
  \E size \in ProcessedSizes :
    /\ args' = [args EXCEPT !.processedImageData = Some(size)]
    /\ returned' = shown(args')
    /\ UNCHANGED vars

DisplayNext ==
  \/ DisplayZoomChange
  \/ ImagePublished

DisplaySpec == DisplayInit /\ [][DisplayNext]_allVars

(***************************************************************************)
(* getCompositeImageData from the return of executeAsModal on: the bytes   *)
(* the host has handed back are made an ImageData, or the call throws.     *)
(***************************************************************************)
\* n bytes as the host may hand them back; byte i is (7 * i + first) % 256
hostBytes(n, first) == [i \in 1..n |-> (7 * i + first) % 256]

\* no bytes up to one byte more than RGBA takes, from two first bytes
HostData(targetWidth, targetHeight) ==
  {hostBytes(n, first) :
     n \in 0..(targetWidth * targetHeight * 4 + 1), first \in {0, 101}}

ConvertInit ==
  /\ AppInit
  /\ \E targetWidth \in 1..MaxWidth, targetHeight \in 1..MaxHeight :
       \E pixelData \in HostData(targetWidth, targetHeight) :
         args = [targetWidth |-> targetWidth, targetHeight |-> targetHeight,
                 pixelData |-> pixelData]
  /\ returned = Null

toImageDataCall ==
  /\ returned = Null
  /\ returned' = Some(toImageData(args.pixelData, args.targetWidth, args.targetHeight))
  /\ UNCHANGED <<vars, args>>

ConvertNext == toImageDataCall

ConvertSpec == ConvertInit /\ [][ConvertNext]_allVars

(***************************************************************************)
(* Properties of the cache                                                 *)
(***************************************************************************)
\* C1: every pipeline run's source buffer was captured at the
\* ProcessingScale that is current when the run starts: a run that reuses
\* the cached buffer finds it captured at the current scale, and a run that
\* starts a capture asks for the current scale.
C1_SourceCapturedAtCurrentScale ==
  [][ /\ \A doc \in ActiveDocuments :
           (LevelsTimerFiresOn(doc) /\ cachedRawImageRef # Null) =>
             \A d \in Docs :
               /\ cachedRawImageRef[1].width =
                    targetSize(d.width, previewState.processingScale)
               /\ cachedRawImageRef[1].height =
                    targetSize(d.height, previewState.processingScale)
      /\ Len(inflight') > Len(inflight) =>
           inflight'[Len(inflight')].closure.processingScale =
             previewState.processingScale
    ]_vars

\* C2: a run that reuses the cached buffer publishes the same output as a
\* run with the same levels and palette on a fresh capture of the same
\* source at the scale the cached buffer was captured at.
C2_CachedRunEqualsFreshRun ==
  [][ \A doc \in ActiveDocuments :
        (LevelsTimerFiresOn(doc) /\ cachedRawImageRef # Null) =>
          LET closure == levelsTimer[1].closure
              fresh == captureEnd(cachedRawImageRef[1].width,
                                  cachedRawImageRef[1].height,
                                  "rgba").imageData
          IN previewState'.processedImageData =
               Some(floydSteinberg(
                      applyLevelsToImageData(fresh, closure.levels),
                      closure.palette))
    ]_vars

\* C3: whenever the cache is held, its bytes are the bytes the capture
\* that created it returned.
C3_CacheHoldsCapturedBytes ==
  cachedRawImageRef # Null =>
    cachedRawImageRef[1].data =
      hostPixels(cachedRawImageRef[1].width, cachedRawImageRef[1].height, 4)

\* C4 as claimed: no step of a reprocess that performs a fresh capture
\* (Process click or scale timer), other than the successful end of its
\* capture, changes the cache entry.
C4_FreshCaptureKeepsCacheUnlessSuccess ==
  [][ /\ (ProcessClick \/ ScaleTimerFires) =>
           cachedRawImageRef' = cachedRawImageRef
      /\ (CaptureSettlesAny /\ last' = "failure") =>
           cachedRawImageRef' = cachedRawImageRef
    ]_vars

\* C4 as the code has it: a Process click leaves the cache entry as it is,
\* a capture that fails leaves it as it is, a capture that succeeds
\* replaces it by a buffer of the size that capture asked for, and the
\* expiry of the scale timer discards the entry before its capture starts.
\* (The steps that end a capture are those that shorten inflight.)
C4_CacheReplacedOnSuccessDroppedByScaleTimer ==
  [][ /\ ProcessClick => cachedRawImageRef' = cachedRawImageRef
      /\ Len(inflight') < Len(inflight) =>
           IF last' = "failure"
             THEN cachedRawImageRef' = cachedRawImageRef
             ELSE \E n \in DOMAIN inflight :
                    /\ inflight' = removeAt(inflight, n)
                    /\ cachedRawImageRef' # Null
                    /\ cachedRawImageRef'[1].width = inflight[n].targetWidth
                    /\ cachedRawImageRef'[1].height = inflight[n].targetHeight
      /\ ScaleTimerFires => cachedRawImageRef' = Null
    ]_vars

\* a capture started by the scale timer has failed: nothing is in flight,
\* an output of an earlier run is shown and the cache is empty
C4_Witness ==
  /\ last = "failure"
  /\ inflight = <<>>
  /\ previewState.processedImageData # Null
  /\ cachedRawImageRef = Null

(***************************************************************************)
(* Properties of concurrent runs                                           *)
(***************************************************************************)
\* C5: at most one processImage invocation is in flight at any time.
C5_AtMostOneRunInFlight == Len(inflight) <= 1

\* C6: a run that was requested before a run that has already published
\* is discarded when its capture completes: it changes neither
\* processedImageData nor the cached buffer.
C6_StaleRunIsDiscarded ==
  [][ \A n \in DOMAIN inflight : \A outcome \in Outcomes :
        (CaptureSettles(n, outcome) /\ n <= overtaken) =>
          /\ previewState'.processedImageData =
               previewState.processedImageData
          /\ cachedRawImageRef' = cachedRawImageRef
    ]_vars

\* C7: parameter changes cancel the debounced run that is pending, so at
\* most one debounced run is pending at any time.
C7_AtMostOnePendingRun == levelsTimer = Null \/ scaleTimer = Null

(***************************************************************************)
(* Properties of failures and of the published output                      *)
(***************************************************************************)
\* C8 as claimed: when a capture fails, the error state is exactly the
\* failure the capture raised, for the failure thrown before the capture
\* is awaited as for the failures it settles with.
C8_ErrorStateIsTheRaisedFailure ==
  [][ /\ (\/ ProcessClickOn(Null)
          \/ ScaleTimerFiresOn(Null)
          \/ (cachedRawImageRef = Null /\ LevelsTimerFiresOn(Null))) =>
           error' = Some(captureStart(Null, 10).error)
      /\ (Len(inflight') < Len(inflight) /\ last' = "failure") =>
           \E n \in DOMAIN inflight : \E outcome \in Outcomes :
             LET result == captureEnd(inflight[n].targetWidth,
                                      inflight[n].targetHeight, outcome)
             IN /\ inflight' = removeAt(inflight, n)
                /\ ~result.ok
                /\ error' = Some(result.error)
    ]_vars

\* C8 as the code has it: 'No active document' clears the error state;
\* every other capture failure is shown as its message followed by
\* '\n\nStack: ' and its stack trace; and the step in which a run fails
\* starts no capture and arms no timer.
C8_FailureShownWithStackAndNotRetried ==
  [][ /\ (\/ ProcessClickOn(Null)
          \/ ScaleTimerFiresOn(Null)
          \/ (cachedRawImageRef = Null /\ LevelsTimerFiresOn(Null))) =>
           /\ error' = Null
           /\ inflight' = inflight
           /\ levelsTimer' = Null \/ levelsTimer' = levelsTimer
           /\ \/ scaleTimer' = Null
              \/ scaleTimer' = scaleTimer
              \/ scaleTimer' = released(scaleTimer)
      /\ (Len(inflight') < Len(inflight) /\ last' = "failure") =>
           /\ \E n \in DOMAIN inflight : \E outcome \in Outcomes :
                LET result == captureEnd(inflight[n].targetWidth,
                                         inflight[n].targetHeight, outcome)
                IN /\ inflight' = removeAt(inflight, n)
                   /\ ~result.ok
                   /\ error' = Some(result.error \o <<"\n\nStack: ", "stack">>)
           /\ levelsTimer' = levelsTimer
           /\ scaleTimer' = scaleTimer
    ]_vars

\* a capture has failed with 'Invalid pixel data' and nothing is in flight
C8_Witness ==
  /\ last = "failure"
  /\ inflight = <<>>
  /\ error = Some(<<"Invalid pixel data", ": expected RGBA or RGB bytes",
                     "\n\nStack: ", "stack">>)

\* C9: processedImageData and processedSize, both null at first, change
\* only in a step that ends a run with success, and then to a complete
\* output: processedSize is the size of processedImageData, whose buffer
\* has width * height * 4 bytes and whose every pixel is a palette colour.
\* A step that fails, or starts a capture, leaves both as they were.
C9_OutputAllOrNothing ==
  [][ (\/ previewState'.processedImageData # previewState.processedImageData
       \/ previewState'.processedSize # previewState.processedSize) =>
        /\ last' = "success"
        /\ previewState'.processedImageData # Null
        /\ LET image == previewState'.processedImageData[1]
               palette == previewState'.palette
           IN /\ previewState'.processedSize =
                   Some([width |-> image.width, height |-> image.height])
              /\ Len(image.data) = image.width * image.height * 4
              /\ \A p \in 0..(image.width * image.height - 1) :
                   \E k \in DOMAIN palette :
                     <<image.data[4 * p + 1], image.data[4 * p + 2],
                       image.data[4 * p + 3]>> = paletteRGB(palette[k])
    ]_vars

\* a run has failed while the output of an earlier run is shown
C9_Witness ==
  /\ last = "failure"
  /\ error # Null
  /\ previewState.processedImageData # Null
  /\ previewState.processedSize # Null

\* C10: a run on a document that validateDocument rejects (not RGB or not
\* 8 bits per channel) fails at once with an error message: no capture is
\* started and no output is produced.
C10_InvalidDocumentFailsBeforeCapture ==
  [][ \A doc \in Docs :
        (/\ ~validateDocument(doc).isValid
         /\ ProcessClickOn(Some(doc)) \/ ScaleTimerFiresOn(Some(doc))) =>
          /\ last' = "failure"
          /\ error' # Null
          /\ inflight' = inflight
          /\ previewState'.processedImageData =
               previewState.processedImageData
    ]_vars

(***************************************************************************)
(* The App with one of its runs followed from its start to its end, under  *)
(* the condition that getCompositeImageData settles. args is the position  *)
(* in inflight of the run that is followed: Null before any run is, and    *)
(* Some(0) once the run has ended.                                         *)
(***************************************************************************)
FairInit == AppInit /\ args = Null /\ returned = Null

\* a run is followed and awaits its capture
following == IF args = Null THEN FALSE ELSE args[1] > 0

\* a step that may call processImage: a run it leaves awaiting its capture
\* is followed or not, when no run is followed yet
mayStart ==
  /\ args' \in (IF ~following /\ Len(inflight') > Len(inflight)
                  THEN {args, Some(Len(inflight'))} ELSE {args})
  /\ UNCHANGED returned

\* getCompositeImageData settles with the outcome for the n-th call in
\* flight, which leaves inflight: the run followed ends, or moves up when a
\* call before it leaves
SettlesAt(n, outcome) ==
  /\ n \in DOMAIN inflight
  /\ inflight' = removeAt(inflight, n)
  /\ CaptureSettles(n, outcome)
  /\ args' = IF ~following THEN args
             ELSE IF n = args[1] THEN Some(0)
             ELSE IF n < args[1] THEN Some(args[1] - 1)
             ELSE args
  /\ UNCHANGED returned

SettlesAny ==
  \E n \in 1..MaxInFlight : \E outcome \in Outcomes : SettlesAt(n, outcome)

\* the capture of the oldest call in flight rejects or resolves
OldestSettles ==
  \/ SettlesAt(1, "rejected")
  \/ \E outcome \in Outcomes \ {"rejected"} : SettlesAt(1, outcome)

\* a Levels field is set; whether a run ends does not depend on the pixels,
\* and the runs are followed with the black and white points left alone
MidPointChange ==
  \E value \in MidPoints : handleLevelsChange("midPoint", value)

FairNext ==
  \/ ProcessClick /\ mayStart
  \/ SettlesAny
  \/ MidPointChange /\ UNCHANGED callVars
  \/ ScaleChange /\ UNCHANGED callVars
  \/ handleAlgorithmChange /\ UNCHANGED callVars
  \/ LevelsTimerFires /\ mayStart
  \/ ScaleTimerFires /\ mayStart

\* every capture resolves or rejects: the oldest call awaiting its capture
\* does not wait for ever
FairSpec == FairInit /\ [][FairNext]_allVars /\ WF_allVars(OldestSettles)

(***************************************************************************)
(* dithering.worker.ts: self.onmessage on its own. args is e.data, the     *)
(* message received; returned is what the handler has posted when it ends. *)
(***************************************************************************)
\* e.data.type: WorkerMessage names 'DITHER' only, a sender may post another
MessageTypes == {"DITHER", "CANCEL"}

\* e.data.algorithm: the names of AlgorithmType
AlgorithmTypes ==
  {"floyd-steinberg", "atkinson", "ordered", "sierra", "stucki", "burkes"}

\* Math.round(t1 - t0), in milliseconds
Timings == {0, 3}

\* the messages received: imageData is an ImageData, or is missing
WorkerMessages ==
  [type : MessageTypes,
   imageData : {Null} \cup {Some(image) : image \in Images},
   algorithm : AlgorithmTypes,
   palette : DitherPalettes]

\* the body of the try block up to the response: the ImageData that result
\* holds, or the message of the Error thrown (floydSteinberg destructures
\* its imageData, which throws a TypeError when it is missing)
dither(message) ==
  IF message.algorithm = "floyd-steinberg"
    THEN IF message.imageData = Null
           THEN [ok |-> FALSE,
                 error |-> <<"TypeError: ", "imageData is undefined">>,
                 imageData |-> Null]
           ELSE [ok |-> TRUE, error |-> <<>>,
                 imageData |->
                   Some(floydSteinberg(message.imageData[1], message.palette))]
    ELSE [ok |-> FALSE, error |-> <<"Unknown algorithm: ", message.algorithm>>,
          imageData |-> Null]

\* the handler without its catch block
posted_noCatch(message, timing) ==
  IF message.type = "DITHER"
    THEN IF dither(message).ok
           THEN << [type |-> "DITHER_COMPLETE",
                    imageData |-> dither(message).imageData,
                    error |-> Null, timing |-> Some(timing)] >>
           ELSE << >>
    ELSE << >>

\* the responses handed to self.postMessage while the handler runs
posted(message, timing) ==
  IF message.type = "DITHER"
    THEN IF dither(message).ok
           THEN << [type |-> "DITHER_COMPLETE",
                    imageData |-> dither(message).imageData,
                    error |-> Null, timing |-> Some(timing)] >>
           ELSE << [type |-> "ERROR", imageData |-> Null,
                    error |-> Some(dither(message).error),
                    timing |-> Null] >>
    ELSE << >>

WorkerInit ==
  /\ AppInit
  /\ args \in WorkerMessages
  /\ returned = Null

\* self.onmessage = (e) => { ... } runs on the message
onmessage ==
  /\ returned = Null
  /\ \E timing \in Timings :
       returned' = Some([of |-> "onmessage", value |-> posted(args, timing)])
  /\ UNCHANGED args
  /\ UNCHANGED vars

WorkerNext == onmessage

WorkerSpec == WorkerInit /\ [][WorkerNext]_allVars

(***************************************************************************)
(* Claims about findClosestColor (ClosestSpec).                            *)
(***************************************************************************)
\* C11: for a non-empty palette findClosestColor returns the entry whose
\* squared Euclidean RGB distance to (r, g, b) is minimal over the palette,
\* the first such entry in palette order; with ['#000000', '#FFFFFF'] it
\* returns (0,0,0) for (10,10,10) and (127,127,127) and (255,255,255) for
\* (250,250,250).
C11_ClosestIsFirstNearestEntry ==
  (returned /= Null /\ Len(args.palette) > 0) =>
    LET palette == args.palette
        entry(k) == paletteRGB(palette[k])
        d(k) == (args.r - entry(k)[1]) * (args.r - entry(k)[1])
                + (args.g - entry(k)[2]) * (args.g - entry(k)[2])
                + (args.b - entry(k)[3]) * (args.b - entry(k)[3])
        rgb == <<args.r, args.g, args.b>>
    IN /\ \E k \in 1..Len(palette) :
            /\ returned[1] = entry(k)
            /\ \A j \in 1..Len(palette) : d(k) <= d(j)
            /\ \A j \in 1..(k - 1) : d(j) > d(k)
       /\ palette = DEFAULT_PALETTE =>
            /\ rgb \in {<<10, 10, 10>>, <<127, 127, 127>>} => returned[1] = <<0, 0, 0>>
            /\ rgb = <<250, 250, 250>> => returned[1] = <<255, 255, 255>>

\* two different entries at the same minimal distance: the first is returned
C11_Witness ==
  /\ returned = Some(<<2, 0, 0>>)
  /\ args.r = 1 /\ args.g = 0 /\ args.b = 0
  /\ args.palette = << <<"#", "0", "2", "0", "0", "0", "0">>,
                       <<"#", "0", "0", "0", "0", "0", "0">> >>

(***************************************************************************)
(* Claims about applyLevelsToImageData and floydSteinberg (DitherSpec).    *)
(***************************************************************************)
\* C12: an empty palette handed to the ditherer (and through it to the
\* palette matcher) fails with an InvalidPalette error before any pixel is
\* processed: floydSteinberg returns no output buffer for an empty palette.
C12_EmptyPaletteProducesNoOutput ==
  ~ /\ returned /= Null
    /\ returned[1].of = "floydSteinberg"
    /\ args.palette = <<>>

\* C13: after floydSteinberg returns for a non-empty palette, the R, G, B of
\* every output pixel is one of the palette colours: once a pixel has been
\* quantized, in raster order, no later step of the diffusion writes to it.
C13_OutputPixelsArePaletteColours ==
  (returned /= Null /\ returned[1].of = "floydSteinberg" /\ args.palette /= <<>>) =>
    LET width == args.imageData.width
        height == args.imageData.height
        output == returned[1].value.data
        colours == {paletteRGB(args.palette[k]) : k \in 1..Len(args.palette)}
        rgb(data, q) == <<data[4 * q + 1], data[4 * q + 2], data[4 * q + 3]>>
        \* from the working buffer in which pixels 0 .. p-1 have been
        \* processed: each later step writes a palette colour to its own
        \* pixel and leaves the pixels before it as they are
        RECURSIVE untouchedFrom(_, _)
        untouchedFrom(before, p) ==
          IF p >= width * height THEN before = output
          ELSE LET next == ditherPixel(before, width, height, p, args.palette)
               IN /\ Len(next) = Len(before)
                  /\ rgb(next, p) \in colours
                  /\ \A q \in 0..(p - 1) : rgb(next, q) = rgb(before, q)
                  /\ untouchedFrom(next, p + 1)
    IN /\ \A q \in 0..(width * height - 1) : rgb(output, q) \in colours
       /\ untouchedFrom(args.imageData.data, 0)

\* a 2x2 image dithered to black and white pixels
C13_Witness ==
  /\ returned /= Null
  /\ returned[1].of = "floydSteinberg"
  /\ args.palette = DEFAULT_PALETTE
  /\ args.imageData.width = 2 /\ args.imageData.height = 2
  /\ \E q \in 0..3 : returned[1].value.data[4 * q + 1] = 0
  /\ \E q \in 0..3 : returned[1].value.data[4 * q + 1] = 255

\* C14: floydSteinberg equals the reference raster scan: pixels are taken
\* row by row, left to right; the error of the pixel at (x, y), the value
\* read from the working buffer minus the quantized value, per channel, is
\* added to (x+1, y) with weight 7/16, (x-1, y+1) with 3/16, (x, y+1) with
\* 5/16 and (x+1, y+1) with 1/16; each updated value is clamped to [0, 255]
\* and stored as an integer (the nearest one, the even one of two equally
\* near); only cells of the buffer are written: nothing wraps into the next
\* row and dropped weight is not redistributed.
C14_EqualsReferenceRasterScan ==
  (returned /= Null /\ returned[1].of = "floydSteinberg") =>
    LET width == args.imageData.width
        height == args.imageData.height
        input == args.imageData.data
        output == returned[1].value
        \* cell number k, from 1, is the pixel at (kx(k), ky(k))
        kx(k) == (k - 1) % width
        ky(k) == (k - 1) \div width
        cells == [k \in 1..(width * height) |->
                    <<input[4 * k - 3], input[4 * k - 2], input[4 * k - 1], input[4 * k]>>]
        \* v + e * weight / 16, clamped, then made an integer
        added(v, e, weight) ==
          LET n16 == 16 * v + e * weight
              floor == n16 \div 16
              rest == n16 % 16
          IN IF n16 <= 0 THEN 0
             ELSE IF n16 >= 16 * 255 THEN 255
             ELSE IF rest < 8 \/ (rest = 8 /\ floor % 2 = 0) THEN floor
             ELSE floor + 1
        RECURSIVE scan(_, _)
        scan(buffer, p) ==
          IF Len(buffer) < p THEN buffer
          ELSE LET x == kx(p)
                   y == ky(p)
                   read == buffer[p]
                   quantized == findClosestColor(read[1], read[2], read[3], args.palette)
                   e == [c \in 1..3 |-> read[c] - quantized[c]]
                   spread(cell, weight) ==
                     <<added(cell[1], e[1], weight), added(cell[2], e[2], weight),
                       added(cell[3], e[3], weight), cell[4]>>
               IN scan([k \in 1..Len(buffer) |->
                          IF k = p
                            THEN <<quantized[1], quantized[2], quantized[3], read[4]>>
                          ELSE IF kx(k) = x + 1 /\ ky(k) = y THEN spread(buffer[k], 7)
                          ELSE IF kx(k) = x - 1 /\ ky(k) = y + 1 THEN spread(buffer[k], 3)
                          ELSE IF kx(k) = x /\ ky(k) = y + 1 THEN spread(buffer[k], 5)
                          ELSE IF kx(k) = x + 1 /\ ky(k) = y + 1 THEN spread(buffer[k], 1)
                          ELSE buffer[k]],
                       p + 1)
        reference == scan(cells, 1)
    IN /\ output.width = width
       /\ output.height = height
       /\ Len(output.data) = 4 * width * height
       /\ \A k \in 1..(width * height) : \A c \in 1..4 :
            output.data[4 * (k - 1) + c] = reference[k][c]

\* 120 * 7 / 16 = 52.5 carried to the right: 230 + 52.5 is clamped to 255
\* and 20 + 52.5 is stored as 72
C14_Witness ==
  /\ returned /= Null
  /\ returned[1].of = "floydSteinberg"
  /\ args.palette = DEFAULT_PALETTE
  /\ args.imageData.width = 2 /\ args.imageData.height = 2
  /\ SubSeq(args.imageData.data, 1, 8) = <<120, 120, 120, 255, 230, 20, 130, 128>>
  /\ SubSeq(returned[1].value.data, 1, 8) = <<0, 0, 0, 255, 255, 255, 255, 128>>

\* C15 (as claimed): for the 4x4 source whose every pixel is
\* (128, 128, 128, 255), with the default levels and the palette
\* [black, white], the first output pixel (0, 0) is black, (0, 0, 0, 255).
C15_FirstPixelOfGrayIsBlack ==
  [][(/\ returned /= Null
      /\ returned[1].of = "applyLevelsToImageData"
      /\ args.imageData = Gray4x4
      /\ args.levels = DEFAULT_LEVELS
      /\ args.palette = DEFAULT_PALETTE
      /\ returned' /= returned)
     => SubSeq(returned'[1].value.data, 1, 4) = <<0, 0, 0, 255>>]_allVars

\* C15 (as the code runs): in that scenario the default levels leave every
\* pixel at (128, 128, 128, 255), and the first output pixel (0, 0) is
\* white, (255, 255, 255, 255): 128 is nearer to 255 than to 0.
C15_FirstPixelOfGrayIsWhite ==
  [][(/\ args.imageData = Gray4x4
      /\ args.levels = DEFAULT_LEVELS
      /\ args.palette = DEFAULT_PALETTE
      /\ returned' /= returned)
     => IF returned = Null
          THEN returned'[1].of = "applyLevelsToImageData"
                 => returned'[1].value = Gray4x4
          ELSE /\ returned'[1].of = "floydSteinberg"
               /\ returned'[1].value.width = 4
               /\ returned'[1].value.height = 4
               /\ SubSeq(returned'[1].value.data, 1, 4) = <<255, 255, 255, 255>>]_allVars

\* the scenario has run to its end
C15_Witness ==
  /\ returned /= Null
  /\ returned[1].of = "floydSteinberg"
  /\ args.imageData = Gray4x4
  /\ args.levels = DEFAULT_LEVELS
  /\ args.palette = DEFAULT_PALETTE
  /\ SubSeq(returned[1].value.data, 1, 4) = <<255, 255, 255, 255>>

(***************************************************************************)
(* Claims about applyLevels (LevelsSpec).                                  *)
(***************************************************************************)
\* C16: applyLevels(v, 0, 1.0, 255) = v for every v in 0..255, and
\* applyLevelsToImageData with the default LevelsSettings leaves every
\* channel of a pixel as it was.
C16_DefaultLevelsAreIdentity ==
  (/\ returned /= Null
   /\ args.blackPoint = 0 /\ args.midPoint = 10 /\ args.whitePoint = 255) =>
    /\ returned[1].of = "applyLevels" => returned[1].value = args.value
    /\ returned[1].of = "applyLevelsToImageData" =>
         returned[1].value =
           [width |-> 1, height |-> 1,
            data |-> <<args.value, args.value, args.value, 255>>]

\* a value strictly between the two points comes back as it went in
C16_Witness ==
  /\ returned /= Null
  /\ returned[1].of = "applyLevels"
  /\ returned[1].value = 128
  /\ args = [value |-> 128, blackPoint |-> 0, midPoint |-> 10, whitePoint |-> 255]

\* C17 (as claimed): for all v, black, white in 0..255 and every mid,
\* applyLevels is 0 whenever v <= black and 255 whenever v >= white.
C17_ClipsAtBlackAndAtWhite ==
  (returned /= Null /\ returned[1].of = "applyLevels") =>
    /\ args.value <= args.blackPoint => returned[1].value = 0
    /\ args.value >= args.whitePoint => returned[1].value = 255

\* C17 (as the code runs): applyLevels is 0 whenever v <= black, and 255
\* whenever v >= white and v > black: the black clip is tested first.
C17_BlackClipComesFirst ==
  (returned /= Null /\ returned[1].of = "applyLevels") =>
    /\ args.value <= args.blackPoint => returned[1].value = 0
    /\ (args.value >= args.whitePoint /\ args.value > args.blackPoint) =>
         returned[1].value = 255

\* a value at or above the white point and at or below the black point
C17_Witness ==
  /\ returned /= Null
  /\ returned[1].of = "applyLevels"
  /\ returned[1].value = 0
  /\ args.value = 100 /\ args.blackPoint = 200 /\ args.whitePoint = 100

\* C18: for black >= white applyLevels returns from one of its two clips,
\* without dividing by white - black: 0 for v <= black, else 255; and for
\* every input the result of applyLevels, and every byte that
\* applyLevelsToImageData stores, is an integer in 0..255.
C18_DegenerateRangeIsClipped ==
  returned /= Null =>
    /\ returned[1].of = "applyLevels" =>
         /\ returned[1].value \in 0..255
         /\ args.blackPoint >= args.whitePoint =>
              returned[1].value = IF args.value <= args.blackPoint THEN 0 ELSE 255
    /\ returned[1].of = "applyLevelsToImageData" =>
         \A i \in 1..4 : returned[1].value.data[i] \in 0..255

\* black = white, with a value above them
C18_Witness ==
  /\ returned /= Null
  /\ returned[1].of = "applyLevels"
  /\ returned[1].value = 255
  /\ args.value = 200 /\ args.blackPoint = 128 /\ args.whitePoint = 128

(***************************************************************************)
(* Claims about the buffers of the pipeline (DitherSpec).                  *)
(***************************************************************************)
\* C19: the alpha of every pixel of what applyLevelsToImageData returns,
\* and of what floydSteinberg returns, is the alpha of that pixel of the
\* image the call was given.
C19_AlphaIsPreserved ==
  [][returned' /= returned =>
       LET input == args.imageData
           output == returned'[1].value
       IN /\ Len(output.data) = Len(input.data)
          /\ \A q \in 1..(input.width * input.height) :
               output.data[4 * q] = input.data[4 * q]]_allVars

\* levels that change the colours, then the dithering, of an image that
\* has a pixel of alpha 128
C19_Witness ==
  /\ returned /= Null
  /\ returned[1].of = "floydSteinberg"
  /\ args.levels /= DEFAULT_LEVELS
  /\ args.imageData.data[1] \notin {120, 230}
  /\ \E q \in 1..(args.imageData.width * args.imageData.height) :
       /\ args.imageData.data[4 * q] = 128
       /\ returned[1].value.data[4 * q] = 128

C21_SizeIsRoundedProduct ==
  returned /= Null =>
    /\ returned[1].value.width = (2 * args.size.width * args.percent + 100) \div 200
    /\ returned[1].value.height = (2 * args.size.height * args.percent + 100) \div 200

(***************************************************************************)
(* Claims about the display (DisplaySpec).                                 *)
(***************************************************************************)
\* C22: for every Display Zoom in 50..200 the canvas the processed image is
\* painted on has the dimensions calculateCanvasSize(processedSize,
\* displayZoom), round(dimension x zoom / 100), each pixel of the image
\* being painted as a square of side round(zoom / 100).
C22_CanvasHasCanvasSize ==
  returned.canvas /= Null =>
    LET canvas == returned.canvas[1]
        expected == calculateCanvasSize(args.processedImageData[1], args.displayZoom)
    IN /\ canvas.width = expected.width
       /\ canvas.height = expected.height
       /\ canvas.pixelSize = (2 * args.displayZoom + 100) \div 200

\* C23: in every reachable state the border shown around the preview has
\* the colour of the classification of the current Display Zoom: green iff
\* zoom = 100, red iff zoom < 100, blue iff zoom > 100.
C23_BorderFollowsZoom ==
  /\ returned.borderStyle = getBorderStyle(getBorderColor(args.displayZoom))
  /\ returned.borderStyle.border[2] = "#00ff00" <=> args.displayZoom = 100
  /\ returned.borderStyle.border[2] = "#ff0000" <=> args.displayZoom < 100
  /\ returned.borderStyle.border[2] = "#0088ff" <=> args.displayZoom > 100

(***************************************************************************)
(* Claims about the captured buffer (ConvertSpec).                         *)
(***************************************************************************)
\* C24: getCompositeImageData returns RGBA buffers only: width * height * 4
\* bytes from the host are copied unchanged; of width * height * 3 bytes
\* the R, G, B of each pixel are kept in order and its alpha is set to 255;
\* for any other length the call fails with an error and returns no
\* buffer. A returned buffer has targetWidth * targetHeight * 4 bytes.
C24_CapturedBufferIsRGBA ==
  returned /= Null =>
    LET pixelData == args.pixelData
        n == args.targetWidth * args.targetHeight
        got == returned[1]
    IN /\ got.ok =>
            /\ got.imageData.width = args.targetWidth
            /\ got.imageData.height = args.targetHeight
            /\ Len(got.imageData.data) = 4 * n
       /\ Len(pixelData) = 4 * n => got.ok /\ got.imageData.data = pixelData
       /\ Len(pixelData) = 3 * n =>
            /\ got.ok
            /\ \A q \in 0..(n - 1) :
                 /\ \A c \in 1..3 : got.imageData.data[4 * q + c] = pixelData[3 * q + c]
                 /\ got.imageData.data[4 * q + 4] = 255
       /\ Len(pixelData) \notin {3 * n, 4 * n} =>
            /\ ~got.ok
            /\ got.error /= <<>>

\* two pixels of RGB bytes made two opaque RGBA pixels
C24_Witness ==
  /\ returned /= Null
  /\ returned[1].ok
  /\ args.targetWidth = 2 /\ args.targetHeight = 1
  /\ args.pixelData = <<7, 14, 21, 28, 35, 42>>
  /\ returned[1].imageData.data = <<7, 14, 21, 255, 28, 35, 42, 255>>

(***************************************************************************)
(* Claims about the runs of the App (Spec).                                *)
(***************************************************************************)
\* C25: isProcessing is true in every state in which some run is in flight,
\* started and neither succeeded nor failed yet: no run resets it while
\* another run still awaits its capture.
C25_ProcessingWhileInFlight ==
  Len(inflight) > 0 => previewState.isProcessing

\* C26: while there is no cache entry, no change of a parameter (levels,
\* palette, algorithm, Processing Scale) schedules a run, and a capture is
\* started by a Process click only: by a step that is no expiry of a timer.
C26_NoRunWithoutCacheButByClick ==
  [][cachedRawImageRef = Null =>
       /\ levelsTimer' \in {Null, levelsTimer}
       /\ scaleTimer' \in {Null, scaleTimer, released(scaleTimer)}
       /\ Len(inflight') > Len(inflight) =>
            /\ levelsTimer' = levelsTimer
            /\ scaleTimer' = scaleTimer]_vars

(***************************************************************************)
(* Claims about the runs of the App when captures settle (FairSpec)        *)
(***************************************************************************)
\* C27: a run that has started and awaits its capture ends, in success or
\* in failure, provided captures settle; and with no run in flight and no
\* timer pending isProcessing is false.
C27_RunsEndAndIdleIsNotProcessing ==
  /\ following ~> (args = Some(0) /\ last \in {"success", "failure"})
  /\ [](inflight = <<>> /\ levelsTimer = Null /\ scaleTimer = Null
          => ~previewState.isProcessing)

\* the run followed has ended in failure and the App is idle
C27_Witness ==
  /\ args = Some(0) /\ last = "failure"
  /\ inflight = <<>> /\ levelsTimer = Null /\ scaleTimer = Null
  /\ ~previewState.isProcessing

(***************************************************************************)
(* Claims about the dithering worker (WorkerSpec)                          *)
(***************************************************************************)
\* C28: the worker answers a DITHER message with exactly one response:
\* DITHER_COMPLETE with the dithered image when the algorithm is
\* 'floyd-steinberg' and dithering does not throw, ERROR with a message and
\* no image otherwise; to a message of another type it posts nothing.
C28_OneResponsePerDither ==
  returned /= Null =>
    LET responses == returned[1].value
    IN IF args.type /= "DITHER" THEN responses = << >>
       ELSE /\ Len(responses) = 1
            /\ IF args.algorithm = "floyd-steinberg" /\ args.imageData /= Null
                 THEN /\ responses[1].type = "DITHER_COMPLETE"
                      /\ responses[1].imageData =
                           Some(floydSteinberg(args.imageData[1], args.palette))
                      /\ responses[1].error = Null
                 ELSE /\ responses[1].type = "ERROR"
                      /\ responses[1].error /= Null
                      /\ Len(responses[1].error[1]) > 0
                      /\ responses[1].imageData = Null

\* a DITHER message naming 'atkinson' has been answered with the one ERROR
\* response that names it
C28_Witness ==
  /\ returned /= Null
  /\ args.type = "DITHER" /\ args.algorithm = "atkinson"
  /\ args.imageData /= Null
  /\ Len(returned[1].value) = 1
  /\ returned[1].value[1].type = "ERROR"
  /\ returned[1].value[1].error = Some(<<"Unknown algorithm: ", "atkinson">>)

====
